---- MODULE Spec2Model ----
(***************************************************************************)
(* CHECK-MODULE MCP server: the in-memory documentation store              *)
(* (src/src/docStore.ts), the library source registry and fetch pipeline   *)
(* (src/src/webFetcher.ts) and the request handlers (src/src/index.ts).    *)
(*                                                                         *)
(* JavaScript values are represented as follows.  A string is a TLA+       *)
(* string.  An object is a record; a property whose value is ~undefined~   *)
(* is a field that is absent from the record.  A value of type             *)
(* "string | undefined" that has to be stored on its own (a Map key) is a  *)
(* set with at most one element.  A Date is a natural number read from     *)
(* the clock ~now~.  A Map is the sequence of its entries in insertion     *)
(* order.  A backquote, which a TLA+ string cannot hold, is written ~.     *)
(***************************************************************************)
EXTENDS Integers, Sequences, FiniteSets, TLC

VARIABLES docs, DOC_SOURCES, now, lastOp

vars == <<docs, DOC_SOURCES, now, lastOp>>

(***************************************************************************)
(* Bounds                                                                  *)
(***************************************************************************)
\* the clock is read as a number in 0..MaxTime
MaxTime == 2

(***************************************************************************)
(* Program data and the inputs of the operations                           *)
(***************************************************************************)
\* the three sample documents of initializeSampleDocs, in insertion order
sampleDocs == <<
  [id |-> "api-auth", title |-> "Authentication API",
   description |-> "How to authenticate with our internal API",
   content |-> "# Authentication API\n\n## Overview\nOur API uses JWT tokens for authentication.\n\n## Getting Started\n1. Obtain credentials from the admin panel\n2. Make a POST request to /api/auth/login\n3. Include the token in subsequent requests\n\n## Example\n~~~javascript\nconst response = await fetch('/api/auth/login', {\n  method: 'POST',\n  headers: { 'Content-Type': 'application/json' },\n  body: JSON.stringify({ username, password })\n});\nconst { token } = await response.json();\n~~~\n\n## Token Usage\nInclude the token in the Authorization header:\n~~~\nAuthorization: Bearer <your-token>\n~~~",
   category |-> "API", tags |-> <<"authentication", "security", "jwt">>,
   lastUpdated |-> 0, version |-> "2.0"],
  [id |-> "db-schema", title |-> "Database Schema",
   description |-> "Internal database schema documentation",
   content |-> "# Database Schema\n\n## Users Table\n- id (UUID, primary key)\n- email (VARCHAR, unique)\n- password_hash (VARCHAR)\n- created_at (TIMESTAMP)\n- updated_at (TIMESTAMP)\n\n## Posts Table\n- id (UUID, primary key)\n- user_id (UUID, foreign key)\n- title (VARCHAR)\n- content (TEXT)\n- published (BOOLEAN)\n- created_at (TIMESTAMP)\n\n## Relationships\n- One user can have many posts\n- Posts belong to one user",
   category |-> "Database", tags |-> <<"schema", "postgresql", "database">>,
   lastUpdated |-> 0, version |-> "1.5"],
  [id |-> "deploy-guide", title |-> "Deployment Guide",
   description |-> "How to deploy our applications",
   content |-> "# Deployment Guide\n\n## Prerequisites\n- Docker installed\n- Access to production servers\n- Environment variables configured\n\n## Steps\n1. Build the Docker image\n   ~~~bash\n   docker build -t myapp:latest .\n   ~~~\n\n2. Tag for registry\n   ~~~bash\n   docker tag myapp:latest registry.company.com/myapp:latest\n   ~~~\n\n3. Push to registry\n   ~~~bash\n   docker push registry.company.com/myapp:latest\n   ~~~\n\n4. Deploy to production\n   ~~~bash\n   kubectl apply -f deployment.yaml\n   ~~~\n\n## Rollback\nIf something goes wrong:\n~~~bash\nkubectl rollout undo deployment/myapp\n~~~",
   category |-> "DevOps", tags |-> <<"deployment", "docker", "kubernetes">>,
   lastUpdated |-> 0, version |-> "3.0"]
>>

\* documents passed to DocumentationStore.addDoc (the caller also supplies a
\* lastUpdated, which addDoc overwrites)
DocPool == {
  [id |-> "api-auth", title |-> "Auth API v2", description |-> "Login with JWT",
   content |-> "Use the docker login flow", category |-> "Security",
   tags |-> <<"jwt">>],
  [id |-> "", title |-> "Docker tips", description |-> "", content |-> "",
   category |-> "", tags |-> <<"docker", "API">>, version |-> "1"] }

\* the title a caller writes into a document object it holds
CallerTitle == "Edited by the caller"

\* ids passed to getDocById, deleteDoc, get-doc and the resource URIs
IdPool == {"api-auth", "", "missing"}

\* options passed to DocumentationStore.search
SearchPool == {
  [query |-> "api"],
  [query |-> "API", limit |-> 1],
  [query |-> "DOCKER", limit |-> 2],
  [query |-> "", limit |-> 1],
  [query |-> "", category |-> ""],
  [query |-> "a", category |-> "DevOps"],
  [query |-> "a", category |-> "none"],
  [query |-> "e", tags |-> <<"jwt", "docker">>],
  [query |-> "e", tags |-> <<>>, limit |-> 3],
  [query |-> "KEN IN"],
  [query |-> "Internal"],
  [query |-> "zzz"] }

\* arguments of the add-doc tool: complete, without id, without title
AddDocArgsPool == {
  [id |-> "", title |-> "Docker tips", description |-> "", content |-> "",
   category |-> "", tags |-> <<"docker", "API">>, version |-> "1"],
  [title |-> "No id", description |-> "d", content |-> "c", category |-> "API",
   tags |-> <<"jwt">>],
  [id |-> "api-auth", description |-> "d", content |-> "c", category |-> "API",
   tags |-> <<"jwt">>] }

\* arguments of the search-docs tool: the last ones lack the required query
SearchArgsPool == {
  [query |-> "api"],
  [query |-> "DOCKER", limit |-> 1],
  [query |-> "a", limit |-> 0],
  [query |-> "", category |-> ""],
  [query |-> "e", category |-> "API", tags |-> <<"jwt">>],
  [category |-> "API"],
  [category |-> "none"] }

\* arguments of the get-doc tool: the last ones lack the required id
GetDocArgsPool == {[id |-> id] : id \in IdPool} \cup {[format |-> "text"]}

\* library names passed to addDocSource; the normalized form of "--" is empty
RegisterPool == {"React", "my_lib", "MyLib", "--"}

\* library names passed to searchLibraryDocs
LibraryPool == RegisterPool \cup {"lang-graph", "LangGraph", "constructor", "unknown"}

\* urls passed to addDocSource
UrlPool == {"", "https://a.example/docs"}

\* topics passed to searchLibraryDocs (the empty set: no topic)
TopicPool == {{}, {""}, {"HOOK"}, {"ref"}}

\* s repeated n times, and label followed by digits up to the length n
RECURSIVE Repeat(_, _)
Repeat(s, n) == IF n = 0 THEN "" ELSE s \o Repeat(s, n - 1)

Pad(label, n) ==
  label \o SubSeq(Repeat("0123456789", n \div 10 + 1), 1, n - Len(label))

\* pages served by the remote end (the body of the response, HTML).
\* PageShort: a style and a script block, tags, entities, blank and indented lines
PageShort ==
  "<html><head><style>p { color: red }</style>\n"
  \o "<SCRIPT async>var hook = 1 < 2;\n</SCRIPT></head>\n<body>\n"
  \o "  <h1>Quick start</h1>\n\n<p>Install &amp; run the package</p>\n"
  \o "\tDone &lt;now&gt;&nbsp;\r\n</body></html>"

\* PageLong: 18 lines of text, with the word hook on lines 4 and 15 and the word
\* refs on lines 6 and 16 (counted from 0)
PageLong ==
  "<ul>\n<li>Guide</li>\n<li>Intro</li>\n<li>Setup</li>\n<li>State</li>\n"
  \o "<li>Using a hook</li>\n<li>Effects</li>\n<li>Refs</li>\n<li>Context</li>\n"
  \o "<li>Reducers</li>\n<li>Memo</li>\n<li>Portals</li>\n<li>Suspense</li>\n"
  \o "<li>Errors</li>\n<li>Forms</li>\n<li>Lists</li>\n"
  \o "<li>Custom Hook rules</li>\n<li>Testing refs</li>\n<li>End</li>\n</ul>"

\* PageWide: 12 lines of 500 characters, 6011 characters of text
PageWide ==
  "<p>" \o Pad("Wide guide ", 500) \o "</p>\n<p>" \o Pad("The hook api ", 500)
  \o Repeat("</p>\n<p>" \o Pad("Section ", 500), 9)
  \o "</p>\n<p>" \o Pad("Refs appendix ", 500) \o "</p>"

\* PageExact: 9 lines of 499 characters and one of 500, 5000 characters of text
PageExact ==
  Repeat("<p>" \o Pad("Chapter &amp; verse ", 503) \o "</p>\n", 9)
  \o "<p>" \o Pad("Closing chapter ", 500) \o "</p>"

\* what the remote end answers to a fetch
ResponsePool == {
  [kind |-> "networkError", ok |-> FALSE, text |-> ""],
  [kind |-> "http", ok |-> FALSE, text |-> ""],
  [kind |-> "http", ok |-> TRUE, text |-> PageShort],
  [kind |-> "http", ok |-> TRUE, text |-> PageLong],
  [kind |-> "http", ok |-> TRUE, text |-> PageWide],
  [kind |-> "http", ok |-> TRUE, text |-> PageExact] }

\* arguments of the fetch-library-docs tool: the last ones lack the library
FetchArgsPool == {
  [library |-> "React"],
  [library |-> "lang-graph", query |-> "HOOK"],
  [library |-> "constructor"],
  [library |-> "unknown"],
  [query |-> "HOOK"] }

\* the tools of the ListTools answer, and the fields their schemas require
ToolNames == {"search-docs", "get-doc", "list-categories", "add-doc",
              "fetch-library-docs", "list-available-libraries"}

RequiredFields ==
  ("search-docs" :> {"query"}) @@
  ("get-doc" :> {"id"}) @@
  ("list-categories" :> {}) @@
  ("add-doc" :> {"id", "title", "description", "content", "category", "tags"}) @@
  ("fetch-library-docs" :> {"library"}) @@
  ("list-available-libraries" :> {})

\* resource URIs passed to ReadResource
ResourcePrefix == "doc://internal/"

UriPool == {ResourcePrefix \o id : id \in IdPool}
             \cup {"doc://internal/undefined", "doc://external/api-auth"}

(***************************************************************************)
(* String and object helpers (String.prototype and Array.prototype         *)
(* methods).  toLowerCase and indexOf are evaluated once for the strings   *)
(* of the program data and inputs above and looked up afterwards.          *)
(***************************************************************************)
UpperLetters == "ABCDEFGHIJKLMNOPQRSTUVWXYZ"

LowerLetters == "abcdefghijklmnopqrstuvwxyz"

Digits == "0123456789"

Min(a, b) == IF a < b THEN a ELSE b

Max(a, b) == IF a > b THEN a ELSE b

\* obj.key is not undefined
Has(obj, key) == key \in DOMAIN obj

\* a value of type "string | undefined" as a set of at most one string
Opt(obj, key) == IF Has(obj, key) THEN {obj[key]} ELSE {}

\* c, a string of length 1, occurs in alphabet
CharIn(c, alphabet) == \E i \in 1..Len(alphabet) : SubSeq(alphabet, i, i) = c

LowerChar(c) ==
  IF CharIn(c, UpperLetters)
  THEN LET i == CHOOSE j \in 1..Len(UpperLetters) : SubSeq(UpperLetters, j, j) = c
       IN  SubSeq(LowerLetters, i, i)
  ELSE c

\* s.toLowerCase(), on the ASCII letters
RECURSIVE ToLowerCaseOf(_)
ToLowerCaseOf(s) ==
  IF Len(s) = 0 THEN s
  ELSE IF Len(s) = 1 THEN LowerChar(s)
  ELSE LET h == Len(s) \div 2
       IN  ToLowerCaseOf(SubSeq(s, 1, h)) \o ToLowerCaseOf(SubSeq(s, h + 1, Len(s)))

\* s.indexOf(sub): the 0-based offset of the first occurrence, or -1
IndexOfScan(s, sub) ==
  LET hits == {i \in 0..(Len(s) - Len(sub)) : SubSeq(s, i + 1, i + Len(sub)) = sub}
  IN  IF hits = {} THEN -1 ELSE CHOOSE i \in hits : \A j \in hits : i <= j

KnownDocs == {sampleDocs[i] : i \in 1..Len(sampleDocs)} \cup DocPool \cup AddDocArgsPool

KnownTexts ==
  {CallerTitle} \cup UNION {{d[f] : f \in DOMAIN d \cap {"title", "description", "content"}}
           \cup (IF Has(d, "tags") THEN {d.tags[i] : i \in 1..Len(d.tags)} ELSE {})
         : d \in KnownDocs}

KnownQueries == {o.query : o \in {p \in SearchPool \cup SearchArgsPool : Has(p, "query")}}

KnownStrings == KnownTexts \cup KnownQueries

LowerTable == [s \in KnownStrings |-> ToLowerCaseOf(s)]

ToLowerCase(s) == IF s \in KnownStrings THEN LowerTable[s] ELSE ToLowerCaseOf(s)

IndexKeys == {<<LowerTable[s], LowerTable[q]>> : s \in KnownTexts, q \in KnownQueries}

IndexTable == [p \in IndexKeys |-> IndexOfScan(p[1], p[2])]

IndexOf(s, sub) ==
  IF <<s, sub>> \in IndexKeys THEN IndexTable[<<s, sub>>] ELSE IndexOfScan(s, sub)

\* s.includes(sub)
Includes(s, sub) == IndexOf(s, sub) # -1

\* s.slice(start, end) for 0 <= start, end <= s.length
Slice(s, start, end) == SubSeq(s, start + 1, end)

\* array.includes(x)
ArrayIncludes(arr, x) == \E i \in 1..Len(arr) : arr[i] = x

(***************************************************************************)
(* docStore.ts: DocumentationStore                                         *)
(***************************************************************************)
\* Map.prototype.has / get / set / delete on a sequence of [key, doc] entries;
\* a key is a set of at most one string (the empty set is the key `undefined`)
MapHas(m, k) == \E i \in 1..Len(m) : m[i].key = k

MapGet(m, k) == {m[i].doc : i \in {j \in 1..Len(m) : m[j].key = k}}

MapSet(m, k, v) ==
  IF MapHas(m, k)
  THEN [i \in 1..Len(m) |-> IF m[i].key = k THEN [key |-> k, doc |-> v] ELSE m[i]]
  ELSE Append(m, [key |-> k, doc |-> v])

MapDelete(m, k) == SelectSeq(m, LAMBDA e : e.key # k)

\* getDocById(id): the stored document, or undefined (the empty set)
getDocById(m, id) == MapGet(m, id)

\* search, lines 174-185: the document is skipped by the category or tag filter
SkippedByCategory(doc, options) ==
  /\ Has(options, "category")
  /\ options.category # ""
  /\ Opt(doc, "category") # {options.category}

TagFilterActive(options) == Has(options, "tags") /\ Len(options.tags) > 0

SkippedByTags(doc, options) ==
  /\ TagFilterActive(options)
  /\ ~ \E i \in 1..Len(options.tags) : ArrayIncludes(doc.tags, options.tags[i])

\* search: the callback of forEach raises a TypeError on this document
\* (a method call on an undefined query or document field)
SearchThrowsOn(doc, options) ==
  /\ ~SkippedByCategory(doc, options)
  /\ \/ TagFilterActive(options) /\ ~Has(doc, "tags")
     \/ /\ ~(Has(doc, "tags") /\ SkippedByTags(doc, options))
        /\ \/ ~Has(options, "query")
           \/ ~Has(doc, "title")
           \/ ~Has(doc, "description")
           \/ ~Has(doc, "content")
           \/ ~Has(doc, "tags")

\* Score with the title weighted like the description
ScoreTitleUnderweighted(doc, query) ==
  LET queryLower == ToLowerCase(query)
  IN  (IF Includes(ToLowerCase(doc.title), queryLower) THEN 5 ELSE 0)
    + (IF Includes(ToLowerCase(doc.description), queryLower) THEN 5 ELSE 0)
    + (IF Includes(ToLowerCase(doc.content), queryLower) THEN 2 ELSE 0)
    + (IF \E i \in 1..Len(doc.tags) : Includes(ToLowerCase(doc.tags[i]), queryLower)
       THEN 3 ELSE 0)

\* search, lines 187-209: the relevance score
Score(doc, query) ==
  LET queryLower == ToLowerCase(query)
  IN  (IF Includes(ToLowerCase(doc.title), queryLower) THEN 10 ELSE 0)
    + (IF Includes(ToLowerCase(doc.description), queryLower) THEN 5 ELSE 0)
    + (IF Includes(ToLowerCase(doc.content), queryLower) THEN 2 ELSE 0)
    + (IF \E i \in 1..Len(doc.tags) : Includes(ToLowerCase(doc.tags[i]), queryLower)
       THEN 3 ELSE 0)

\* the excerpt starting at the match, without the characters before it
ExcerptWithoutContext(doc, query) ==
  LET queryIndex == IndexOf(ToLowerCase(doc.content), ToLowerCase(query))
  IN  IF queryIndex # -1
      THEN "..." \o Slice(doc.content, queryIndex,
                            Min(Len(doc.content), queryIndex + 150)) \o "..."
      ELSE doc.description

\* search, lines 212-221: the excerpt
Excerpt(doc, query) ==
  LET queryIndex == IndexOf(ToLowerCase(doc.content), ToLowerCase(query))
      start == Max(0, queryIndex - 50)
      end == Min(Len(doc.content), queryIndex + 150)
  IN  IF queryIndex # -1
      THEN "..." \o Slice(doc.content, start, end) \o "..."
      ELSE doc.description

\* the results left in the order of the scan
SortByScoreForgotten(results) == results

\* results.sort((a, b) => b.score - a.score): stable, by score descending
RECURSIVE SortByScore(_)
SortByScore(results) ==
  IF Len(results) = 0 THEN results
  ELSE LET first == Head(results)
           rest == SortByScore(Tail(results))
           k == Cardinality({i \in 1..Len(rest) : rest[i].score > first.score})
       IN  SubSeq(rest, 1, k) \o <<first>> \o SubSeq(rest, k + 1, Len(rest))

\* search, line 170: limit = 10 unless options.limit is given
DefaultLimit == 10

\* the limit of the options ignored
EffectiveLimitIgnored(options) == DefaultLimit

EffectiveLimit(options) == IF Has(options, "limit") THEN options.limit ELSE DefaultLimit

\* search(options) on the map m: [threw |-> TRUE] when the scan raises,
\* otherwise the sorted and limited results
search(m, options) ==
  IF \E i \in 1..Len(m) : SearchThrowsOn(m[i].doc, options)
  THEN [threw |-> TRUE, results |-> <<>>]
  ELSE LET passing == SelectSeq(m, LAMBDA e :
                        /\ ~SkippedByCategory(e.doc, options)
                        /\ ~SkippedByTags(e.doc, options))
           scored == [i \in 1..Len(passing) |->
                       [doc |-> passing[i].doc,
                        score |-> Score(passing[i].doc, options.query)]]
           kept == SelectSeq(scored, LAMBDA r : r.score > 0)
           results == [i \in 1..Len(kept) |->
                        [doc |-> kept[i].doc,
                         score |-> kept[i].score,
                         excerpt |-> Excerpt(kept[i].doc, options.query)]]
           sorted == SortByScore(results)
       IN  [threw |-> FALSE,
            results |-> SubSeq(sorted, 1, Min(Len(sorted), EffectiveLimit(options)))]

\* addDoc that stores the document with the lastUpdated of the caller
addDocUnstamped(m, doc, t) == MapSet(m, Opt(doc, "id"), doc)

\* addDoc(doc) when `new Date()` reads t
addDoc(m, doc, t) ==
  LET stamped == [f \in DOMAIN doc \cup {"lastUpdated"} |->
                    IF f = "lastUpdated" THEN t ELSE doc[f]]
  IN  MapSet(m, Opt(doc, "id"), stamped)

\* deleteDoc that answers true whether or not the id was stored
deleteDocAlwaysTrue(m, id) == [ret |-> TRUE, docs |-> MapDelete(m, id)]

\* deleteDoc(id): Map.prototype.delete
deleteDoc(m, id) == [ret |-> MapHas(m, id), docs |-> MapDelete(m, id)]

(***************************************************************************)
(* webFetcher.ts: the library source registry and the fetch pipeline       *)
(***************************************************************************)
\* DOC_SOURCES as the module is loaded
SeedSources ==
  ("langgraph" :> "https://langchain-ai.github.io/langgraph/") @@
  ("langchain" :> "https://python.langchain.com/docs/introduction/") @@
  ("react" :> "https://react.dev/learn") @@
  ("nextjs" :> "https://nextjs.org/docs") @@
  ("vue" :> "https://vuejs.org/guide/introduction.html") @@
  ("fastapi" :> "https://fastapi.tiangolo.com/") @@
  ("django" :> "https://docs.djangoproject.com/en/stable/") @@
  ("express" :> "https://expressjs.com/en/guide/routing.html") @@
  ("pytorch" :> "https://pytorch.org/docs/stable/index.html") @@
  ("tensorflow" :> "https://www.tensorflow.org/guide") @@
  ("pandas" :> "https://pandas.pydata.org/docs/") @@
  ("numpy" :> "https://numpy.org/doc/stable/") @@
  ("crewai" :> "https://docs.crewai.com/")

\* DOC_SOURCES is an object literal, so it inherits the properties of
\* Object.prototype
ObjectPrototypeKeys ==
  {"constructor", "hasOwnProperty", "isPrototypeOf", "propertyIsEnumerable",
   "toLocaleString", "toString", "valueOf", "__defineGetter__", "__defineSetter__",
   "__lookupGetter__", "__lookupSetter__", "__proto__"}

\* obj[key] for an object literal whose own properties are the strings of obj:
\* an own property, else an inherited one, else undefined
PropertyGet(obj, key) ==
  IF key \in DOMAIN obj THEN [type |-> "string", value |-> obj[key]]
  ELSE IF key \in ObjectPrototypeKeys
       THEN [type |-> "object", value |-> "Object.prototype." \o key]
       ELSE [type |-> "undefined", value |-> ""]

\* the value is truthy
Truthy(v) == v.type = "object" \/ (v.type = "string" /\ v.value # "")

\* s.replace(/[^a-z0-9]/g, '')
RECURSIVE StripNonAlnum(_)
StripNonAlnum(s) ==
  IF Len(s) = 0 THEN s
  ELSE LET c == SubSeq(s, 1, 1)
           rest == StripNonAlnum(SubSeq(s, 2, Len(s)))
       IN  IF CharIn(c, LowerLetters) \/ CharIn(c, Digits) THEN c \o rest ELSE rest

\* library.toLowerCase().replace(/[^a-z0-9]/g, ''), evaluated once for the
\* library names of the inputs
NormalizeOf(library) == StripNonAlnum(ToLowerCase(library))

KnownLibraries ==
  LibraryPool \cup {a.library : a \in {b \in FetchArgsPool : Has(b, "library")}}

NormalizeTable == [library \in KnownLibraries |-> NormalizeOf(library)]

Normalize(library) ==
  IF library \in KnownLibraries THEN NormalizeTable[library] ELSE NormalizeOf(library)

\* text.split('\n')
RECURSIVE Split(_)
Split(text) ==
  LET cut == IndexOfScan(text, "\n")
  IN  IF cut = -1 THEN <<text>>
      ELSE <<Slice(text, 0, cut)>> \o Split(Slice(text, cut + 1, Len(text)))

\* lines.join('\n')
RECURSIVE Join(_)
Join(lines) ==
  IF Len(lines) = 0 THEN ""
  ELSE IF Len(lines) = 1 THEN lines[1]
  ELSE lines[1] \o "\n" \o Join(Tail(lines))

\* fetchUrl, lines 45-46: html.replace(/<name\b ... <\/name>/gi, '') for the name
\* script or style: each block from "<name" followed by no word character to the
\* first "</name>" after it is removed, letters compared without case
WordChars == UpperLetters \o LowerLetters \o Digits \o "_"

RECURSIVE RemoveBlocks(_, _)
RemoveBlocks(text, name) ==
  LET lower == ToLowerCaseOf(text)
      open == IndexOfScan(lower, "<" \o name)
      after == open + Len(name) + 1
      close == IndexOfScan(Slice(lower, after, Len(text)), "</" \o name \o ">")
  IN  IF open = -1 \/ after >= Len(text) THEN text
      ELSE IF CharIn(Slice(text, after, after + 1), WordChars)
      THEN Slice(text, 0, after) \o RemoveBlocks(Slice(text, after, Len(text)), name)
      ELSE IF close = -1 THEN text
      ELSE Slice(text, 0, open)
             \o RemoveBlocks(Slice(text, after + close + Len(name) + 3, Len(text)), name)

\* fetchUrl, line 49: text.replace(/<[^>]+>/g, ' ')
RECURSIVE RemoveTags(_)
RemoveTags(text) ==
  LET lt == IndexOfScan(text, "<")
      gt == IndexOfScan(Slice(text, lt + 1, Len(text)), ">")
  IN  IF lt = -1 \/ gt = -1 THEN text
      ELSE IF gt = 0
      THEN Slice(text, 0, lt + 2) \o RemoveTags(Slice(text, lt + 2, Len(text)))
      ELSE Slice(text, 0, lt) \o " " \o RemoveTags(Slice(text, lt + gt + 2, Len(text)))

\* text.replace(/pattern/g, replacement) for a pattern without operators
RECURSIVE ReplaceAll(_, _, _)
ReplaceAll(text, pattern, replacement) ==
  LET at == IndexOfScan(text, pattern)
  IN  IF at = -1 THEN text
      ELSE Slice(text, 0, at) \o replacement
             \o ReplaceAll(Slice(text, at + Len(pattern), Len(text)), pattern, replacement)

\* fetchUrl, lines 52-58
DecodeEntities(text) ==
  ReplaceAll(ReplaceAll(ReplaceAll(ReplaceAll(ReplaceAll(ReplaceAll(text,
    "&nbsp;", " "), "&amp;", "&"), "&lt;", "<"), "&gt;", ">"), "&quot;", "\""),
    "&#39;", "'")

\* line.trim(), for the white space a line of a page holds
WhiteSpace == " \t\r\f"

RECURSIVE Trim(_)
Trim(line) ==
  IF Len(line) = 0 THEN line
  ELSE IF CharIn(SubSeq(line, 1, 1), WhiteSpace) THEN Trim(SubSeq(line, 2, Len(line)))
  ELSE IF CharIn(SubSeq(line, Len(line), Len(line)), WhiteSpace)
  THEN Trim(SubSeq(line, 1, Len(line) - 1))
  ELSE line

\* fetchUrl, lines 61-65
CleanUpWhitespace(text) ==
  LET lines == Split(text)
      trimmed == [i \in 1..Len(lines) |-> Trim(lines[i])]
  IN  Join(SelectSeq(trimmed, LAMBDA line : Len(line) > 0))

\* fetchUrl, lines 43-65: the text of a page, evaluated once for the pages of the
\* inputs
HtmlToTextOf(html) ==
  CleanUpWhitespace(DecodeEntities(RemoveTags(
    RemoveBlocks(RemoveBlocks(html, "script"), "style"))))

KnownPages == {r.text : r \in ResponsePool}

HtmlTable == [html \in KnownPages |-> HtmlToTextOf(html)]

HtmlToText(html) == IF html \in KnownPages THEN HtmlTable[html] ELSE HtmlToTextOf(html)

\* searchLibraryDocs, lines 109-117: the scan from line index i on
BeforeLines == 3

AfterLines == 10

\* the windows pushed by the loop: for a match at line index `at`, the lines
\* start..end-1; the loop goes on at end + 1 (i = end at line 115, then i++)
RECURSIVE ScanWindows(_, _, _)
ScanWindows(lines, queryLower, i) ==
  IF i >= Len(lines) THEN <<>>
  ELSE IF Includes(ToLowerCase(lines[i + 1]), queryLower)
       THEN LET start == Max(0, i - BeforeLines)
                end == Min(Len(lines), i + AfterLines)
            IN  <<[at |-> i, start |-> start, end |-> end]>>
                  \o ScanWindows(lines, queryLower, end + 1)
       ELSE ScanWindows(lines, queryLower, i + 1)

\* relevantLines: lines.slice(start, end) of each window, in the order pushed
RECURSIVE ScanLines(_, _)
ScanLines(lines, windows) ==
  IF Len(windows) = 0 THEN <<>>
  ELSE SubSeq(lines, windows[1].start + 1, windows[1].end)
         \o ScanLines(lines, Tail(windows))

\* searchLibraryDocs, line 103: the filtering runs for a truthy query (a set of
\* at most one string)
QueryGiven(query) == query # {} /\ query # {""}

\* the windows of the scan of content for the query
WindowsOf(content, query) ==
  IF QueryGiven(query)
  THEN ScanWindows(Split(content), ToLowerCase(CHOOSE x \in query : TRUE), 0)
  ELSE <<>>

\* searchLibraryDocs, lines 102-122
FilterByQueryOf(content, query) ==
  IF QueryGiven(query)
  THEN LET relevantLines == ScanLines(Split(content), WindowsOf(content, query))
       IN  IF Len(relevantLines) > 0 THEN Join(relevantLines) ELSE content
  ELSE content

\* the same, evaluated once for the pages and topics of the inputs
FilterKeys == {<<HtmlTable[html], topic>> : html \in KnownPages, topic \in TopicPool}

FilterTable ==
  [p \in FilterKeys |->
     [lines |-> Split(p[1]), windows |-> WindowsOf(p[1], p[2]),
      filtered |-> FilterByQueryOf(p[1], p[2])]]

\* content.split('\n'), line 105
Lines(content) ==
  IF <<content, {}>> \in FilterKeys THEN FilterTable[<<content, {}>>].lines
  ELSE Split(content)

Windows(content, query) ==
  IF <<content, query>> \in FilterKeys THEN FilterTable[<<content, query>>].windows
  ELSE WindowsOf(content, query)

FilterByQuery(content, query) ==
  IF <<content, query>> \in FilterKeys THEN FilterTable[<<content, query>>].filtered
  ELSE FilterByQueryOf(content, query)

\* searchLibraryDocs, lines 125-128
MAX_LENGTH == 5000

TruncationMarker == "\n\n... (content truncated)"

\* the truncation applied from MAX_LENGTH characters on
TruncateFromMaxLength(filteredContent) ==
  IF Len(filteredContent) >= MAX_LENGTH
  THEN SubSeq(filteredContent, 1, MAX_LENGTH) \o TruncationMarker
  ELSE filteredContent

Truncate(filteredContent) ==
  IF Len(filteredContent) > MAX_LENGTH
  THEN SubSeq(filteredContent, 1, MAX_LENGTH) \o TruncationMarker
  ELSE filteredContent

\* fetchUrl(url) for a response of the remote end: the text of the page, or a
\* throw.  fetch rejects a url that is not a string holding a URL; a response that
\* is not ok is thrown at line 39; everything is rethrown at line 69
fetchUrl(url, response) ==
  IF url.type # "string" \/ response.kind = "networkError" \/ ~response.ok
  THEN [threw |-> TRUE, text |-> ""]
  ELSE [threw |-> FALSE, text |-> HtmlToText(response.text)]

\* searchLibraryDocs, lines 77-82: the source the library resolves to, as a set of
\* at most one value (empty: the branch of line 82 is taken)
Resolve(sources, library) ==
  LET libraryLower == Normalize(library)
      docUrl == PropertyGet(sources, libraryLower)
  IN  IF ~Truthy(docUrl) THEN {} ELSE {docUrl}

\* searchLibraryDocs(library, query) for a response of the remote end;
\* `fetched` lists the arguments of the calls of fetchUrl, `text` is the text
\* fetchUrl returned and `windows` are the windows of the topic scan
searchLibraryDocs(sources, library, query, response) ==
  LET resolved == Resolve(sources, library)
      docUrl == CHOOSE v \in resolved : TRUE
      fetched == fetchUrl(docUrl, response)
  IN  IF resolved = {}
      THEN [outcome |-> "SourceNotFound", fetched |-> <<>>, library |-> library,
            source |-> "", text |-> "", windows |-> <<>>, content |-> ""]
      ELSE IF fetched.threw
      THEN [outcome |-> "FetchFailed", fetched |-> <<docUrl>>, library |-> library,
            source |-> "", text |-> "", windows |-> <<>>, content |-> ""]
      ELSE [outcome |-> "ok", fetched |-> <<docUrl>>, library |-> library,
            source |-> docUrl.value,
            text |-> fetched.text,
            windows |-> Windows(fetched.text, query),
            content |-> Truncate(FilterByQuery(fetched.text, query))]

\* addDocSource(library, url)
addDocSource(sources, library, url) ==
  LET libraryLower == Normalize(library)
  IN  [k \in DOMAIN sources \cup {libraryLower} |->
         IF k = libraryLower THEN url ELSE sources[k]]

\* the order of the UTF-16 code units of the characters of a normalized name
CodeOrder == Digits \o LowerLetters

CharRank(c) == CHOOSE i \in 1..Len(CodeOrder) : SubSeq(CodeOrder, i, i) = c

RECURSIVE StrLessOf(_, _)
StrLessOf(a, b) ==
  IF Len(b) = 0 THEN FALSE
  ELSE IF Len(a) = 0 THEN TRUE
  ELSE LET ra == CharRank(SubSeq(a, 1, 1))
           rb == CharRank(SubSeq(b, 1, 1))
       IN  IF ra # rb THEN ra < rb
           ELSE StrLessOf(SubSeq(a, 2, Len(a)), SubSeq(b, 2, Len(b)))

\* the same, evaluated once for the keys DOC_SOURCES can hold
KnownKeys == DOMAIN SeedSources \cup {NormalizeTable[library] : library \in RegisterPool}

LessKeys == {<<a, b>> : a \in KnownKeys, b \in KnownKeys}

LessTable == [p \in LessKeys |-> StrLessOf(p[1], p[2])]

StrLess(a, b) ==
  IF <<a, b>> \in LessKeys THEN LessTable[<<a, b>>] ELSE StrLessOf(a, b)

\* the strings of S in ascending order
RECURSIVE SortStrings(_)
SortStrings(S) ==
  IF S = {} THEN <<>>
  ELSE LET x == CHOOSE y \in S : TRUE
           rest == SortStrings(S \ {x})
           k == Cardinality({i \in 1..Len(rest) : StrLess(rest[i], x)})
       IN  SubSeq(rest, 1, k) \o <<x>> \o SubSeq(rest, k + 1, Len(rest))

\* getAvailableLibraries(): Object.keys(DOC_SOURCES).sort()
getAvailableLibraries(sources) == SortStrings(DOMAIN sources)

(***************************************************************************)
(* docStore.ts: the listings                                               *)
(***************************************************************************)
\* getAllDocs()
getAllDocs(m) == [i \in 1..Len(m) |-> m[i].doc]

\* the elements of seq without repetition, in order of first occurrence
RECURSIVE Distinct(_)
Distinct(seq) ==
  IF Len(seq) = 0 THEN seq
  ELSE LET front == Distinct(SubSeq(seq, 1, Len(seq) - 1))
           last == seq[Len(seq)]
       IN  IF \E i \in 1..Len(front) : front[i] = last THEN front ELSE Append(front, last)

\* getCategories(): a category is a set of at most one string
getCategories(m) == Distinct([i \in 1..Len(m) |-> Opt(m[i].doc, "category")])

\* getDocMetadata()
MetadataFields == {"id", "title", "description", "category", "tags", "version"}

getDocMetadata(m) ==
  [i \in 1..Len(m) |-> [f \in DOMAIN m[i].doc \cap MetadataFields |-> m[i].doc[f]]]

(***************************************************************************)
(* index.ts: the request handlers                                          *)
(***************************************************************************)
\* the template literals of lines 240-249 and 409-418 raise a TypeError
\* (doc.tags.join, doc.lastUpdated.toISOString)
RenderThrows(doc) == ~Has(doc, "tags") \/ ~Has(doc, "lastUpdated")

\* CallTool search-docs, lines 178-183
SearchOptionsOf(args) ==
  [f \in (DOMAIN args \cap {"query", "category", "tags"}) \cup {"limit"} |->
     IF f = "limit"
     THEN IF Has(args, "limit") /\ args.limit # 0 THEN args.limit ELSE DefaultLimit
     ELSE args[f]]

\* CallTool add-doc, lines 268-277, when `new Date()` reads t
DocEntryFields == {"id", "title", "description", "content", "category", "tags", "version"}

DocEntryOf(args, t) ==
  [f \in (DOMAIN args \cap DocEntryFields) \cup {"lastUpdated"} |->
     IF f = "lastUpdated" THEN t ELSE args[f]]

\* `${doc.id}` in the template literal of line 377
IdText(doc) == IF Has(doc, "id") THEN doc.id ELSE "undefined"

\* ListResources, lines 372-383
ListedUris(m) ==
  LET metadata == getDocMetadata(m)
  IN  [i \in 1..Len(metadata) |-> ResourcePrefix \o IdText(metadata[i])]

\* uri.match(/^doc:\/\/internal\/(.+)$/): the captured id as a set of at most one
\* string; `.` matches no line terminator
UriMatch(uri) ==
  LET n == Len(ResourcePrefix)
      rest == SubSeq(uri, n + 1, Len(uri))
  IN  IF /\ Len(uri) > n
         /\ SubSeq(uri, 1, n) = ResourcePrefix
         /\ ~ \E i \in 1..Len(rest) : SubSeq(rest, i, i) \in {"\n", "\r"}
      THEN {rest}
      ELSE {}

\* ReadResource, lines 388-422
ReadResourceOf(m, uri) ==
  LET match == UriMatch(uri)
      doc == IF match = {} THEN {} ELSE getDocById(m, match)
  IN  IF match = {} THEN [outcome |-> "InvalidUri", found |-> {}]
      ELSE IF doc = {} THEN [outcome |-> "NotFound", found |-> {}]
      ELSE IF \E d \in doc : RenderThrows(d) THEN [outcome |-> "TypeError", found |-> doc]
      ELSE [outcome |-> "ok", found |-> doc]

(***************************************************************************)
(* State                                                                   *)
(*   docs         DocumentationStore.docs                                  *)
(*   DOC_SOURCES  the own properties of DOC_SOURCES                        *)
(*   now          the clock read by `new Date()`                           *)
(*   lastOp       the last call with its arguments and its answer          *)
(***************************************************************************)
WithStamp(doc, t) == [f \in DOMAIN doc \cup {"lastUpdated"} |->
                        IF f = "lastUpdated" THEN t ELSE doc[f]]

\* the times `new Date()` may read during a call that starts now
ClockReads == now..Min(now + 1, MaxTime)

Init ==
  /\ docs = [i \in 1..Len(sampleDocs) |->
               [key |-> {sampleDocs[i].id}, doc |-> sampleDocs[i]]]
  /\ DOC_SOURCES = SeedSources
  /\ now = 0
  /\ lastOp = [op |-> "init"]

\* time passes between two calls
Tick ==
  /\ now < MaxTime
  /\ now' = now + 1
  /\ lastOp' = [op |-> "tick"]
  /\ UNCHANGED <<docs, DOC_SOURCES>>

(***************************************************************************)
(* Calls of the DocumentationStore methods.  addDoc stores the object it    *)
(* is given (and writes its lastUpdated), and getDocById, getAllDocs and    *)
(* search return the stored objects: `doc` of an addDoc is the object as    *)
(* the caller passed it and `callerDoc` the same object after the call.     *)
(***************************************************************************)
AddDoc ==
  \E d \in DocPool, supplied \in 0..MaxTime, t \in ClockReads :
    /\ docs' = addDoc(docs, WithStamp(d, supplied), t)
    /\ now' = t
    /\ lastOp' = [op |-> "addDoc", doc |-> WithStamp(d, supplied), callTime |-> now,
                  callerDoc |-> WithStamp(d, t)]
    /\ UNCHANGED DOC_SOURCES

DeleteDoc ==
  \E id \in IdPool :
    /\ docs' = deleteDoc(docs, {id}).docs
    /\ lastOp' = [op |-> "deleteDoc", id |-> id, ret |-> deleteDoc(docs, {id}).ret]
    /\ UNCHANGED <<DOC_SOURCES, now>>

GetDocById ==
  \E id \in IdPool :
    /\ lastOp' = [op |-> "getDocById", id |-> id, ret |-> getDocById(docs, {id})]
    /\ UNCHANGED <<docs, DOC_SOURCES, now>>

Search ==
  \E options \in SearchPool :
    /\ LET r == search(docs, options)
       IN  lastOp' = [op |-> "search", options |-> options,
                      threw |-> r.threw, results |-> r.results]
    /\ UNCHANGED <<docs, DOC_SOURCES, now>>

GetAllDocs ==
  /\ lastOp' = [op |-> "getAllDocs", ret |-> getAllDocs(docs)]
  /\ UNCHANGED <<docs, DOC_SOURCES, now>>

GetCategories ==
  /\ lastOp' = [op |-> "getCategories", ret |-> getCategories(docs)]
  /\ UNCHANGED <<docs, DOC_SOURCES, now>>

GetDocMetadata ==
  /\ lastOp' = [op |-> "getDocMetadata", ret |-> getDocMetadata(docs)]
  /\ UNCHANGED <<docs, DOC_SOURCES, now>>

\* the keys of the stored objects the caller of the last method holds and writes
\* to: the object it passed to addDoc, the object getDocById returned, the
\* object it wrote to before (getAllDocs and search return the stored objects as
\* well)
HeldKeys ==
  CASE lastOp.op = "addDoc" -> {{lastOp.doc.id}}
    [] lastOp.op = "getDocById" -> IF lastOp.ret = {} THEN {} ELSE {{lastOp.id}}
    [] lastOp.op = "callerWrites" -> {lastOp.key}
    [] OTHER -> {}

\* the caller assigns the title of an object it holds; the Map holds the same
\* object (docs.set(doc.id, doc) at line 238, docs.get(id) at line 140)
CallerWrites ==
  \E k \in HeldKeys :
    /\ docs' = [i \in 1..Len(docs) |->
                 IF docs[i].key = k
                 THEN [key |-> k, doc |-> [docs[i].doc EXCEPT !.title = CallerTitle]]
                 ELSE docs[i]]
    /\ lastOp' = [op |-> "callerWrites", key |-> k, title |-> CallerTitle]
    /\ UNCHANGED <<DOC_SOURCES, now>>

(***************************************************************************)
(* Calls of the webFetcher functions                                       *)
(***************************************************************************)
AddDocSource ==
  \E library \in RegisterPool, url \in UrlPool :
    /\ DOC_SOURCES' = addDocSource(DOC_SOURCES, library, url)
    /\ lastOp' = [op |-> "addDocSource", library |-> library, url |-> url]
    /\ UNCHANGED <<docs, now>>

SearchLibraryDocs ==
  \E library \in LibraryPool, query \in TopicPool, response \in ResponsePool :
    /\ LET r == searchLibraryDocs(DOC_SOURCES, library, query, response)
       IN  lastOp' = [op |-> "searchLibraryDocs", library |-> library, query |-> query,
                      outcome |-> r.outcome, fetched |-> r.fetched,
                      source |-> r.source, text |-> r.text, windows |-> r.windows,
                      content |-> r.content]
    /\ UNCHANGED <<docs, DOC_SOURCES, now>>

GetAvailableLibraries ==
  /\ lastOp' = [op |-> "getAvailableLibraries", ret |-> getAvailableLibraries(DOC_SOURCES)]
  /\ UNCHANGED <<docs, DOC_SOURCES, now>>

(***************************************************************************)
(* Requests to the server (index.ts)                                       *)
(***************************************************************************)
\* CallTool, lines 168-173: the request carries no arguments
CallToolWithoutArguments ==
  \E name \in ToolNames :
    /\ lastOp' = [op |-> "call-tool-without-arguments", name |-> name, isError |-> TRUE]
    /\ UNCHANGED <<docs, DOC_SOURCES, now>>

\* CallTool, lines 345-354
CallUnknownTool ==
  /\ lastOp' = [op |-> "unknown-tool", isError |-> TRUE]
  /\ UNCHANGED <<docs, DOC_SOURCES, now>>

\* CallTool search-docs; a TypeError of search is caught at line 356
CallSearchDocs ==
  \E args \in SearchArgsPool :
    /\ LET r == search(docs, SearchOptionsOf(args))
       IN  lastOp' = [op |-> "search-docs", args |-> args,
                      options |-> SearchOptionsOf(args),
                      isError |-> r.threw, results |-> r.results]
    /\ UNCHANGED <<docs, DOC_SOURCES, now>>

\* CallTool get-doc; a TypeError of the rendering is caught at line 356
CallGetDoc ==
  \E args \in GetDocArgsPool :
    /\ LET doc == getDocById(docs, Opt(args, "id"))
       IN  lastOp' = [op |-> "get-doc", args |-> args, found |-> doc,
                      isError |-> doc = {} \/ \E d \in doc : RenderThrows(d)]
    /\ UNCHANGED <<docs, DOC_SOURCES, now>>

\* CallTool list-categories
CallListCategories ==
  /\ lastOp' = [op |-> "list-categories", isError |-> FALSE,
                categories |-> getCategories(docs)]
  /\ UNCHANGED <<docs, DOC_SOURCES, now>>

\* CallTool add-doc
CallAddDoc ==
  \E args \in AddDocArgsPool, t \in ClockReads :
    /\ docs' = addDoc(docs, DocEntryOf(args, now), t)
    /\ now' = t
    /\ lastOp' = [op |-> "add-doc", args |-> args, isError |-> FALSE]
    /\ UNCHANGED DOC_SOURCES

\* a fetch-library-docs that registers a guessed source for the library
CallFetchLibraryDocsRegistering ==
  \E args \in {a \in FetchArgsPool : Has(a, "library")} :
    /\ DOC_SOURCES' = addDocSource(DOC_SOURCES, args.library, "https://a.example/docs")
    /\ lastOp' = [op |-> "fetch-library-docs", args |-> args, isError |-> TRUE,
                  outcome |-> "SourceNotFound", fetched |-> <<>>, content |-> "",
                  available |-> getAvailableLibraries(DOC_SOURCES)]
    /\ UNCHANGED <<docs, now>>

\* CallTool fetch-library-docs; without a library, library.toLowerCase() raises
\* a TypeError; every throw is caught at line 316
CallFetchLibraryDocs ==
  \E args \in FetchArgsPool, response \in ResponsePool :
    /\ IF Has(args, "library")
       THEN LET r == searchLibraryDocs(DOC_SOURCES, args.library, Opt(args, "query"),
                                       response)
            IN  lastOp' = [op |-> "fetch-library-docs", args |-> args,
                           isError |-> r.outcome # "ok", outcome |-> r.outcome,
                           fetched |-> r.fetched, content |-> r.content,
                           available |-> IF r.outcome # "ok"
                                         THEN getAvailableLibraries(DOC_SOURCES)
                                         ELSE <<>>]
       ELSE lastOp' = [op |-> "fetch-library-docs", args |-> args,
                       isError |-> TRUE, outcome |-> "TypeError",
                       fetched |-> <<>>, content |-> "",
                       available |-> getAvailableLibraries(DOC_SOURCES)]
    /\ UNCHANGED <<docs, DOC_SOURCES, now>>

\* CallTool list-available-libraries
CallListAvailableLibraries ==
  /\ lastOp' = [op |-> "list-available-libraries", isError |-> FALSE,
                libraries |-> getAvailableLibraries(DOC_SOURCES)]
  /\ UNCHANGED <<docs, DOC_SOURCES, now>>

\* ListResources
ListResources ==
  /\ lastOp' = [op |-> "list-resources", uris |-> ListedUris(docs)]
  /\ UNCHANGED <<docs, DOC_SOURCES, now>>

\* ReadResource
ReadResource ==
  \E uri \in UriPool :
    /\ LET r == ReadResourceOf(docs, uri)
       IN  lastOp' = [op |-> "read-resource", uri |-> uri, outcome |-> r.outcome,
                      found |-> r.found]
    /\ UNCHANGED <<docs, DOC_SOURCES, now>>

(***************************************************************************)
(* Specifications                                                          *)
(***************************************************************************)
NextStore ==
  \/ Tick
  \/ AddDoc
  \/ DeleteDoc
  \/ GetDocById
  \/ GetAllDocs
  \/ GetCategories
  \/ GetDocMetadata
  \/ Search
  \/ CallerWrites

NextRegistry == AddDocSource \/ SearchLibraryDocs \/ GetAvailableLibraries

NextServer ==
  \/ Tick
  \/ CallToolWithoutArguments
  \/ CallUnknownTool
  \/ CallSearchDocs
  \/ CallGetDoc
  \/ CallListCategories
  \/ CallAddDoc
  \/ CallFetchLibraryDocs
  \/ CallListAvailableLibraries
  \/ ListResources
  \/ ReadResource

Next == NextStore \/ NextRegistry \/ NextServer

\* every call of the modules.  The three modules share no state but lastOp, so the
\* properties are checked under SpecStore, SpecRegistry and SpecServer; the state
\* space of the composition is their product and is not explored exhaustively.
Spec == Init /\ [][Next]_vars

\* the DocumentationStore methods alone
SpecStore == Init /\ [][NextStore]_vars

\* the webFetcher functions alone
SpecRegistry == Init /\ [][NextRegistry]_vars

\* the server as its clients drive it
SpecServer == Init /\ [][NextServer]_vars

(***************************************************************************)
(* Claims                                                                  *)
(***************************************************************************)
\* C1: a library whose normalized name was neither seeded nor registered makes
\* searchLibraryDocs fail with SourceNotFound without any call of fetchUrl.
\* The own properties of DOC_SOURCES are exactly the seeded and registered names.
C1_UnregisteredIsSourceNotFound ==
  (lastOp.op = "searchLibraryDocs" /\ Normalize(lastOp.library) \notin DOMAIN DOC_SOURCES)
    => (lastOp.outcome = "SourceNotFound" /\ lastOp.fetched = <<>>)

\* C2: a search with a category returns only documents of that category, and a
\* search with a non-empty tag list returns only documents carrying one of the tags.
C2_FiltersAreExclusionary ==
  (lastOp.op = "search" /\ ~lastOp.threw) =>
    \A i \in 1..Len(lastOp.results) :
      LET doc == lastOp.results[i].doc
          options == lastOp.options
      IN  /\ Has(options, "category") => doc.category = options.category
          /\ (Has(options, "tags") /\ Len(options.tags) > 0) =>
               \E j \in 1..Len(doc.tags) : ArrayIncludes(options.tags, doc.tags[j])

\* C3: a tool request that lacks a field its input schema requires is answered
\* with an error and changes neither the documents nor the library sources.
C3_MissingFieldIsRejected ==
  [][(lastOp'.op \in ToolNames /\ ~(RequiredFields[lastOp'.op] \subseteq DOMAIN lastOp'.args))
       => (lastOp'.isError /\ docs' = docs /\ DOC_SOURCES' = DOC_SOURCES)]_vars

\* C4: reading the resource doc://internal/<id> finds exactly the document that
\* get-doc finds for that id, and signals not-found when there is none.
C4_ResourceResolvesLikeGetDoc ==
  \A id \in IdPool :
    (lastOp.op = "read-resource" /\ lastOp.uri = ResourcePrefix \o id) =>
       /\ lastOp.found = getDocById(docs, {id})
       /\ getDocById(docs, {id}) = {} => lastOp.outcome \in {"NotFound", "InvalidUri"}

\* the score the documentation gives doc for the query text
ExpectedScore(doc, text) ==
  LET q == ToLowerCase(text)
      titleWeight == IF Includes(ToLowerCase(doc.title), q) THEN 10 ELSE 0
      descriptionWeight == IF Includes(ToLowerCase(doc.description), q) THEN 5 ELSE 0
      contentWeight == IF Includes(ToLowerCase(doc.content), q) THEN 2 ELSE 0
      tagWeight == IF \E i \in 1..Len(doc.tags) : Includes(ToLowerCase(doc.tags[i]), q)
                   THEN 3 ELSE 0
  IN  titleWeight + descriptionWeight + contentWeight + tagWeight

TitleMatches(doc, text) == Includes(ToLowerCase(doc.title), ToLowerCase(text))

PassesFilters(doc, options) ==
  ~SkippedByCategory(doc, options) /\ ~SkippedByTags(doc, options)

\* the search whose answer is in lastOp returned hits
SearchReturned == lastOp.op = "search" /\ ~lastOp.threw

\* the stored documents that pass the filters of the last search with a score > 0
Matching ==
  {i \in 1..Len(docs) :
     /\ PassesFilters(docs[i].doc, lastOp.options)
     /\ ExpectedScore(docs[i].doc, lastOp.options.query) > 0}

\* C5: the score of every hit is the sum of the weights of the fields that contain
\* the lowercased query (title 10, description 5, content 2, a tag 3), so it lies
\* in 1..20; a document that passes the filters and whose title contains the
\* query is scored at least 10.
C5_ScoreIsSumOfWeights ==
  SearchReturned =>
    /\ \A i \in 1..Len(lastOp.results) :
         LET hit == lastOp.results[i]
         IN  /\ hit.score = ExpectedScore(hit.doc, lastOp.options.query)
             /\ hit.score \in 1..20
             /\ TitleMatches(hit.doc, lastOp.options.query) => hit.score >= 10
    /\ Len(lastOp.results) < EffectiveLimit(lastOp.options) =>
         \A k \in 1..Len(docs) :
           (/\ PassesFilters(docs[k].doc, lastOp.options)
            /\ TitleMatches(docs[k].doc, lastOp.options.query)) =>
             \E i \in 1..Len(lastOp.results) :
               lastOp.results[i].doc = docs[k].doc /\ lastOp.results[i].score >= 10

\* a search in capitals returned a hit matched by its title and a tag (13), and a
\* hit matched by its content and a tag but not by its title (5)
C5_Witness ==
  /\ SearchReturned
  /\ lastOp.options.query # ToLowerCase(lastOp.options.query)
  /\ \E i, j \in 1..Len(lastOp.results) :
       /\ lastOp.results[i].score = 13
       /\ TitleMatches(lastOp.results[i].doc, lastOp.options.query)
       /\ lastOp.results[j].score = 5
       /\ ~TitleMatches(lastOp.results[j].doc, lastOp.options.query)

\* C6: the hits are in order of non-increasing score, so a document that scores
\* strictly above all the others is first.
C6_SortedByScoreDescending ==
  SearchReturned =>
    /\ \A i \in 1..(Len(lastOp.results) - 1) :
         lastOp.results[i].score >= lastOp.results[i + 1].score
    /\ \A i \in 1..Len(lastOp.results) :
         (\A j \in 1..Len(lastOp.results) :
            j # i => lastOp.results[i].score > lastOp.results[j].score) => i = 1

\* the position of the document in the store
PositionOf(doc) == CHOOSE k \in 1..Len(docs) : docs[k].doc = doc

\* the sort moved a later document of the store in front of an earlier one
C6_Witness ==
  /\ SearchReturned
  /\ \E i, j \in 1..Len(lastOp.results) :
       /\ i < j
       /\ lastOp.results[i].score > lastOp.results[j].score
       /\ PositionOf(lastOp.results[i].doc) > PositionOf(lastOp.results[j].doc)

\* C7: with the limit L of the options (10 when there is none) and M stored
\* documents that pass the filters with a score > 0, search returns Min(L, M)
\* hits, and no document left out scores above a returned one.
C7_LimitBoundsTheResults ==
  SearchReturned =>
    LET L == IF Has(lastOp.options, "limit") THEN lastOp.options.limit ELSE 10
        returned == {lastOp.results[i].doc : i \in 1..Len(lastOp.results)}
    IN  /\ Len(lastOp.results) = Min(L, Cardinality(Matching))
        /\ Cardinality(returned) = Len(lastOp.results)
        /\ returned \subseteq {docs[k].doc : k \in Matching}
        /\ \A k \in Matching :
             docs[k].doc \notin returned =>
               \A i \in 1..Len(lastOp.results) :
                 lastOp.results[i].score
                   >= ExpectedScore(docs[k].doc, lastOp.options.query)

\* a search with limit 1 that three or more documents match returned one hit
C7_Witness ==
  /\ SearchReturned
  /\ Has(lastOp.options, "limit")
  /\ lastOp.options.limit = 1
  /\ Cardinality(Matching) >= 3
  /\ Len(lastOp.results) = 1

\* C8: after addDoc(d), getDocById(d.id) returns a document with the fields of d,
\* except lastUpdated, which is at or after the time of the call whatever the
\* caller supplied; a document already stored under the id is replaced whole and
\* the number of stored documents stays the same.
C8_UpsertRoundTrip ==
  [][lastOp'.op = "addDoc" =>
       LET d == lastOp'.doc
           got == getDocById(docs', {d.id})
       IN  /\ Cardinality(got) = 1
           /\ \A g \in got :
                /\ DOMAIN g = DOMAIN d
                /\ \A f \in DOMAIN d \ {"lastUpdated"} : g[f] = d[f]
                /\ g.lastUpdated >= now
           /\ MapHas(docs, {d.id}) => Len(docs') = Len(docs)]_vars

\* addDoc replaced the sample document api-auth in place, by a document without a
\* version, and stamped it later than the lastUpdated the caller supplied
C8_Witness ==
  /\ lastOp.op = "addDoc"
  /\ lastOp.doc.id = "api-auth"
  /\ lastOp.doc.lastUpdated < lastOp.callTime
  /\ Len(docs) = Len(sampleDocs)
  /\ docs[1].key = {"api-auth"}
  /\ docs[1].doc.title = lastOp.doc.title
  /\ ~Has(docs[1].doc, "version")
  /\ docs[1].doc.lastUpdated >= lastOp.callTime

\* C9: deleteDoc(id) returns true exactly when the id is stored; after true the id
\* is absent, and stays absent until an addDoc of that id; after false the store
\* is unchanged; the documents of the other ids are unchanged in both cases.
C9_DeleteRemovesExactlyTheId ==
  [][/\ lastOp'.op = "deleteDoc" =>
          LET id == {lastOp'.id}
          IN  /\ lastOp'.ret = MapHas(docs, id)
              /\ lastOp'.ret => getDocById(docs', id) = {}
              /\ ~lastOp'.ret => docs' = docs
              /\ \A i \in 1..Len(docs) :
                   docs[i].key # id => getDocById(docs', docs[i].key) = {docs[i].doc}
              /\ \A j \in 1..Len(docs') : MapHas(docs, docs'[j].key)
     /\ \A id \in IdPool :
          (getDocById(docs, {id}) = {} /\ getDocById(docs', {id}) # {})
            => (lastOp'.op = "addDoc" /\ lastOp'.doc.id = id)]_vars

\* deleteDoc returned true, the id is gone and the other documents are still there
C9_Witness ==
  /\ lastOp.op = "deleteDoc"
  /\ lastOp.ret
  /\ getDocById(docs, {lastOp.id}) = {}
  /\ Len(docs) >= 2

\* C10: names with the same normalized form resolve alike, and after
\* addDocSource(name, url) every name with the normalized form of name resolves to
\* url, while the other names resolve as before (so a name resolves to the url of
\* the latest registration of its form, or to its seed).
SameFormResolvesAlike(sources) ==
  \A a, b \in LibraryPool :
    Normalize(a) = Normalize(b) => Resolve(sources, a) = Resolve(sources, b)

C10_LastWriterWins ==
  [][/\ SameFormResolvesAlike(DOC_SOURCES')
     /\ lastOp'.op = "addDocSource" =>
          \A a \in LibraryPool :
            IF Normalize(a) = Normalize(lastOp'.library)
            THEN Resolve(DOC_SOURCES', a) = {[type |-> "string", value |-> lastOp'.url]}
            ELSE Resolve(DOC_SOURCES', a) = Resolve(DOC_SOURCES, a)]_vars

\* C11: for every successful searchLibraryDocs call, a text (after the reduction of
\* the page and the topic windowing) longer than 5000 characters is returned as its
\* first 5000 characters followed by the truncation marker, a text of 5000
\* characters or fewer is returned unchanged, and the returned content is never
\* longer than 5000 characters plus the marker.
C11_TruncationAtMaxLength ==
  (lastOp.op = "searchLibraryDocs" /\ lastOp.outcome = "ok") =>
    LET filtered == FilterByQuery(lastOp.text, lastOp.query)
    IN  /\ Len(filtered) > 5000 =>
             lastOp.content = SubSeq(filtered, 1, 5000) \o "\n\n... (content truncated)"
        /\ Len(filtered) <= 5000 => lastOp.content = filtered
        /\ Len(lastOp.content) <= 5000 + Len("\n\n... (content truncated)")

\* a page of 6011 characters of text was windowed for a topic to a text still
\* longer than 5000 characters, and returned cut, with the marker
C11_Witness ==
  /\ lastOp.op = "searchLibraryDocs"
  /\ lastOp.outcome = "ok"
  /\ Len(lastOp.text) > 5000
  /\ Len(lastOp.windows) = 1
  /\ Len(FilterByQuery(lastOp.text, lastOp.query)) > 5000
  /\ Len(FilterByQuery(lastOp.text, lastOp.query)) < Len(lastOp.text)
  /\ Len(lastOp.content) = 5000 + Len(TruncationMarker)

\* C12: the excerpt of every returned hit is, when the query first occurs in the
\* content (letters compared without case) at offset p, the content from
\* max(0, p - 50) to min(length, p + 150) between two ellipsis markers, and the
\* description of the document when the query does not occur in the content.
OccursAt(content, query, p) ==
  SubSeq(ToLowerCase(content), p + 1, p + Len(query)) = ToLowerCase(query)

Occurrences(content, query) ==
  {p \in 0..(Len(content) - Len(query)) : OccursAt(content, query, p)}

ExcerptOf(hit, query) ==
  LET content == hit.doc.content
      found == Occurrences(content, query)
      p == CHOOSE x \in found : \A y \in found : x <= y
  IN  IF found = {} THEN hit.doc.description
      ELSE "..." \o SubSeq(content, Max(0, p - 50) + 1, Min(Len(content), p + 150))
             \o "..."

C12_ExcerptWindow ==
  (lastOp.op = "search" /\ ~lastOp.threw) =>
    \A i \in 1..Len(lastOp.results) :
      lastOp.results[i].excerpt = ExcerptOf(lastOp.results[i], lastOp.options.query)

\* a search returned a hit whose content holds the query first at offset 200, with
\* the content of offsets 150 to 350 between the markers as the excerpt
C12_Witness ==
  /\ lastOp.op = "search"
  /\ ~lastOp.threw
  /\ \E i \in 1..Len(lastOp.results) :
       LET hit == lastOp.results[i]
       IN  /\ Occurrences(hit.doc.content, lastOp.options.query) # {}
           /\ \A p \in Occurrences(hit.doc.content, lastOp.options.query) : p >= 200
           /\ OccursAt(hit.doc.content, lastOp.options.query, 200)
           /\ hit.excerpt = "..." \o SubSeq(hit.doc.content, 151, 350) \o "..."

\* C13: in the topic scan of searchLibraryDocs the window of a match at line index
\* i is the lines max(0, i - 3) up to min(lineCount, i + 10), and no line index
\* belongs to two emitted windows (no line is emitted twice).
C13_TopicWindowsDoNotOverlap ==
  (lastOp.op = "searchLibraryDocs" /\ lastOp.outcome = "ok") =>
    LET lineCount == Len(Lines(lastOp.text))
        w == lastOp.windows
    IN  /\ \A k \in 1..Len(w) :
             /\ w[k].start = Max(0, w[k].at - 3)
             /\ w[k].end = Min(lineCount, w[k].at + 10)
        /\ \A j, k \in 1..Len(w) :
             j # k => ~ \E i \in 0..(lineCount - 1) :
                        /\ w[j].start <= i /\ i < w[j].end
                        /\ w[k].start <= i /\ i < w[k].end

\* C17: when a non-empty topic is given, every line of the text that holds the
\* topic (letters compared without case) lies inside an emitted window, so it is
\* part of the filtered content.
C17_NoMatchingLineIsLost ==
  (lastOp.op = "searchLibraryDocs" /\ lastOp.outcome = "ok" /\ QueryGiven(lastOp.query)) =>
    LET lines == Lines(lastOp.text)
        topic == ToLowerCase(CHOOSE x \in lastOp.query : TRUE)
        w == lastOp.windows
    IN  \A i \in 0..(Len(lines) - 1) :
          Includes(ToLowerCase(lines[i + 1]), topic) =>
            \E k \in 1..Len(w) : w[k].start <= i /\ i < w[k].end

\* C16: the names getAvailableLibraries lists are exactly the names that resolve:
\* searchLibraryDocs of a listed name does not end in the not-found error, and a
\* name for which it does not end in the not-found error has its normalized form
\* in the list.
C16_ListedNamesAreTheNamesThatResolve ==
  LET listed == getAvailableLibraries(DOC_SOURCES)
  IN  /\ \A i \in 1..Len(listed) : Resolve(DOC_SOURCES, listed[i]) # {}
      /\ \A name \in LibraryPool :
           Resolve(DOC_SOURCES, name) # {} =>
             \E i \in 1..Len(listed) : listed[i] = Normalize(name)

\* C14: the store owns its documents: addDoc does not modify the object of the
\* caller, and what is stored changes only through addDoc and deleteDoc (a later
\* write of the caller to the object it passed in, or to an object a read
\* returned, changes nothing stored).
C14_NoExternalAliasing ==
  [][/\ lastOp'.op = "addDoc" => lastOp'.callerDoc = lastOp'.doc
     /\ docs' # docs => lastOp'.op \in {"addDoc", "deleteDoc"}]_vars

\* C15: the read operations (search, getDocById, getAllDocs, getCategories,
\* getDocMetadata, and the handlers that only call them) leave the stored documents
\* and the registry unchanged; searchLibraryDocs leaves both unchanged whatever its
\* outcome; addDoc and deleteDoc leave the registry unchanged and addDocSource
\* leaves the stored documents unchanged.
StoreReads ==
  {"search", "getDocById", "getAllDocs", "getCategories", "getDocMetadata",
   "search-docs", "get-doc", "list-categories", "list-resources", "read-resource"}

Fetches == {"searchLibraryDocs", "fetch-library-docs"}

StoreWrites == {"addDoc", "deleteDoc", "add-doc"}

====
